---- MODULE Spec2Model ----
(***************************************************************************)
(* A model of pyroute2/netlink/rtnl/ifinfmsg/compat.py: the proxy that     *)
(* routes link requests either to the kernel (verdict forward) or to a     *)
(* legacy executor, and the sync decorator that runs an executor next to   *)
(* a monitoring thread.                                                    *)
(***************************************************************************)
EXTENDS Integers, Sequences, FiniteSets, TLC

(***************************************************************************)
(* Bounds of the model.                                                    *)
(***************************************************************************)
\* notification batches the kernel emits during one proxy call
MaxNotify == 2
\* (attribute, value) pairs in one info-data block
MaxPairs == 3

(***************************************************************************)
(* Program constants.                                                      *)
(***************************************************************************)
RTM_NEWLINK == 16
RTM_DELLINK == 17
RTM_SETLINK == 19
\* select.POLLIN, the mask poll() reports for a readable descriptor
POLLIN == 1

\* pyroute2.netlink.rtnl.RTM_VALUES: message type number -> symbolic tag
RTM_VALUES(t) ==
    CASE t = RTM_NEWLINK -> "RTM_NEWLINK"
      [] t = RTM_DELLINK -> "RTM_DELLINK"
      [] t = RTM_SETLINK -> "RTM_SETLINK"

(***************************************************************************)
(* Python values.  None is the empty sequence and a present value x is     *)
(* <<x>>, so that "is None" never compares values of different types.      *)
(***************************************************************************)
None == <<>>
Some(x) == <<x>>
IsNone(o) == Len(o) = 0
Val(o) == o[1]

\* a Python object that is either a str or an int (the monitor's "event")
PyStr(s) == [t |-> "str", s |-> s, n |-> 0]
PyInt(n) == [t |-> "int", s |-> "", n |-> n]

(***************************************************************************)
(* Link messages: a header type, an interface index and an ordered list    *)
(* of [name, value] attributes; nested attributes are [attrs |-> list].    *)
(***************************************************************************)
\* nlmsg.get_attr: the value of the first attribute with that name
get_attr(m, name) ==
    LET hits == SelectSeq(m.attrs, LAMBDA a : a[1] = name)
    IN  IF Len(hits) = 0 THEN None ELSE Some(hits[1][2])

\* the wire image of a message and its decoding (ifinfmsg(data).decode())
Encode(m) == [bytes |-> <<m.type, m.index, m.attrs>>]
Decode(d) == [type |-> d.bytes[1], index |-> d.bytes[2], attrs |-> d.bytes[3]]

Attr(name, opt) == IF IsNone(opt) THEN <<>> ELSE <<<<name, Val(opt)>>>>

\* a link-info block from an optional kind and an optional info-data list
LinkInfo(kindOpt, dataOpt) ==
    [attrs |-> Attr("IFLA_INFO_KIND", kindOpt)
               \o Attr("IFLA_INFO_DATA",
                       IF IsNone(dataOpt) THEN None
                       ELSE Some([attrs |-> Val(dataOpt)]))]

MkMsg(type, index, nameOpt, liOpt, masterOpt) ==
    [type  |-> type,
     index |-> index,
     attrs |-> Attr("IFLA_IFNAME", nameOpt)
               \o Attr("IFLA_LINKINFO", liOpt)
               \o Attr("IFLA_MASTER", masterOpt)]

(***************************************************************************)
(* The environment: interface names, kinds, the live link table that       *)
(* nl.get_links() answers from, and the notifications the kernel sends.    *)
(***************************************************************************)
Indices == {1, 2}
PortName == "eth0"
DevName == "m0"
LongName == "a_name_of_17_char"
Kinds == {"bond", "bridge", "team", "tuntap", "vlan"}

\* nl.get_links(index)[0] for the two interfaces: a port that may have
\* interface 2 as its master, and a device of any kind (or none reported)
LinkTables ==
    { [i \in Indices |->
         IF i = 1
         THEN MkMsg(RTM_NEWLINK, 1, Some(PortName), None, m)
         ELSE MkMsg(RTM_NEWLINK, 2, Some(DevName), li, None)] :
      m \in {None, Some(2)},
      li \in {None} \cup {Some(LinkInfo(Some(k), None)) : k \in Kinds} }

NoTable == [i \in Indices |-> MkMsg(RTM_NEWLINK, i, None, None, None)]

\* one nl.get_links(index) query: what it is made for, and the number of
\* legacy operations done before it
Lookup(what, index, at) == [what |-> what, index |-> index, at |-> at]

\* a notification as the monitor reads it: msg['event'] and IFLA_IFNAME
Notif(tag, name) == [event |-> tag, ifname |-> name]

\* the batches one ipr.get() may return
Batches ==
    { <<Notif(RTM_VALUES(t), DevName)>> : t \in {RTM_NEWLINK, RTM_DELLINK} }
    \cup
    { <<Notif(RTM_VALUES(t), PortName), Notif(RTM_VALUES(t), DevName)>> :
      t \in {RTM_NEWLINK, RTM_DELLINK} }

\* errno values the operating system reports for a failed open or write
OSErrnos == {13}

\* /sys/class/net/<name>: the index in brport/bridge/ifindex and the one in
\* master/ifindex (None: the file cannot be opened), what os.listdir gives
\* (errno 0 and the names, or the errno of the OSError), and the content
\* of the file of each attribute of the kind's table, as its tokens
SysEntry(br, bm, ls, files) ==
    [brport |-> br, master |-> bm, ls |-> ls, files |-> files]
Listing(errno, names) == [errno |-> errno, names |-> names]
Names == {PortName, DevName}
NoSysfs == [n \in Names |-> SysEntry(None, None, Listing(0, {}), <<>>)]

(***************************************************************************)
(* State.                                                                  *)
(***************************************************************************)
VARIABLES
    caps,       \* nl.capabilities
    machine,    \* config.machine
    pc,         \* position of the primary flow
    op,         \* the proxy entry point that is running
    imsg,       \* the caller's request (imsg.data are the original bytes)
    live,       \* the link table nl.get_links() answered from in this call
    lookups,    \* the nl.get_links() queries of this call, in order
    ldata,      \* the data argument of proxy_linkinfo: a sequence of chunks
    sysfs,      \* what /sys/class/net holds for each interface name
    calls,      \* two concurrent calls of a sync-wrapped executor
    pipes,      \* the pipes of the process: bytes written and not yet read
    socks,      \* the netlink sockets of the process: bound, and the queue
    smsg,       \* the message handed to the sync-wrapped executor
    executor,   \* the executor that was invoked, "none" if none was
    outcome,    \* how the executor ended
    oplog,      \* the legacy operations attempted, in order
    wret,       \* what decorated() returned or raised
    result,     \* what the entry point returned or raised
    w_pc,       \* position of the monitoring thread
    w_event,    \* the monitor's local variable event
    w_ifname,   \* the monitor's argument ifname
    w_why,      \* why the monitor returned: "match", "cancel" or ""
    bound,      \* the monitor's socket is bound
    queue,      \* batches waiting in the monitor's socket
    pipe,       \* bytes written to the control pipe of this call
    nsent,      \* batches the kernel emitted during this call
    match_sent  \* a batch holding the awaited notification was emitted

vars == <<caps, machine, ldata, sysfs, calls, pipes, socks, pc, op, imsg, live, lookups, smsg,
          executor, outcome, oplog, wret, result, w_pc, w_event, w_ifname,
          w_why, bound, queue, pipe, nsent, match_sent>>

envvars == <<caps, machine, ldata, sysfs, calls, pipes, socks>>
callvars == <<op, imsg, live, lookups>>
syncvars == <<smsg, executor, outcome>>
monvars == <<w_pc, w_event, w_ifname, w_why, bound, queue>>
kernvars == <<nsent, match_sent>>

NoMsg == MkMsg(RTM_NEWLINK, 1, None, None, None)

\* the two threads that call a sync-wrapped executor at the same time, and
\* the identities of the pipes and sockets they may hold (0: none)
Callers == {"a", "b"}
PipeIds == 1..Cardinality(Callers)
SockIds == 1..Cardinality(Callers)
ClosedSock == [bound |-> FALSE, queue |-> <<>>]
\* a caller outside decorated()
IdleCall == [pc |-> "idle", tag |-> "", ifname |-> "", outcome |-> "none",
             ret |-> "none", w_pc |-> "none", w_event |-> PyStr(""),
             w_why |-> "", pipe |-> 0, ipr |-> 0, last |-> <<>>]
NoPair ==
    /\ calls = [c \in Callers |-> IdleCall]
    /\ pipes = [i \in PipeIds |-> 0]
    /\ socks = [i \in SockIds |-> ClosedSock]
NoOutcome == [status |-> "none", exc |-> "", errno |-> 0]
NoResult == [status |-> "none", verdict |-> "", data |-> None,
             exc |-> "", errno |-> 0]

\* return {'verdict': 'forward', 'data': data}
Forward(data) == [status |-> "return", verdict |-> "forward",
                  data |-> Some(data), exc |-> "", errno |-> 0]
\* return None
ReturnNone == [status |-> "return", verdict |-> "", data |-> None,
               exc |-> "", errno |-> 0]
Raise(exc, errno) == [status |-> "raise", verdict |-> "", data |-> None,
                      exc |-> exc, errno |-> errno]

Init ==
    /\ caps \in [create_bond : BOOLEAN, create_bridge : BOOLEAN,
                  provide_master : {FALSE}]
    /\ machine \in {"x86_64", "armv7l"}
    /\ ldata = <<>>
    /\ sysfs = NoSysfs
    /\ NoPair
    /\ pc = "idle"
    /\ op = "none"
    /\ imsg = [data |-> Encode(NoMsg)]
    /\ live = NoTable
    /\ lookups = <<>>
    /\ smsg = NoMsg
    /\ executor = "none"
    /\ outcome = NoOutcome
    /\ oplog = <<>>
    /\ wret = NoResult
    /\ result = NoResult
    /\ w_pc = "none"
    /\ w_event = PyStr("")
    /\ w_ifname = None
    /\ w_why = ""
    /\ bound = FALSE
    /\ queue = <<>>
    /\ pipe = 0
    /\ nsent = 0
    /\ match_sent = FALSE

(***************************************************************************)
(* Legacy executors.  An executor is described by the exception its        *)
(* validation raises, if any, and by the external operations it performs   *)
(* in order; the first operation that fails ends it with an exception.     *)
(***************************************************************************)
IFNAMSIZ == 16
EOPNOTSUPP == 95
\* errno.ENOENT: no such file or directory
ENOENT == 2

\* one legacy operation: what was done, and for a shell write its value and
\* the return code it gave
Op(kind, what) == [op |-> kind, what |-> what, val |-> 0, rc |-> 0]
NoExc == [exc |-> "", errno |-> 0]
Exc(e, n) == [exc |-> e, errno |-> n]
Plan(pre, ops) == [pre |-> pre, ops |-> ops]

NameOf(msg) == get_attr(msg, "IFLA_IFNAME")

\* TUNSETIFF as the module sets it from config.machine
TUNSETIFF ==
    IF machine \in {"i386", "i686", "x86_64", "s390x"} THEN Some("0x400454ca")
    ELSE IF machine \in {"ppc64", "mips", "loongarch64"} THEN Some("0x800454ca")
    ELSE None

manage_team(msg) ==
    IF msg.type # RTM_NEWLINK
    THEN Plan(Exc("ValueError", 0), <<>>)
    ELSE Plan(NoExc, << Op("check_call", <<"teamd", "-d", "-n", "-c">> \o NameOf(msg)) >>)

manage_tuntap(msg) ==
    LET linkinfo == get_attr(msg, "IFLA_LINKINFO")
        infodata == get_attr(Val(linkinfo), "IFLA_INFO_DATA")
        mode == get_attr(Val(infodata), "IFTUN_MODE")
        user == get_attr(Val(infodata), "IFTUN_UID")
        group == get_attr(Val(infodata), "IFTUN_GID")
        ifr == NameOf(msg)
    IN  IF IsNone(TUNSETIFF)
        THEN Plan(Exc("NetlinkError", EOPNOTSUPP), <<>>)
        ELSE IF msg.type # RTM_NEWLINK
        THEN Plan(Exc("NetlinkError", EOPNOTSUPP), <<>>)
        ELSE IF IsNone(infodata)
        THEN Plan(Exc("AttributeError", 0), <<>>)
        ELSE IF mode # Some("tun") /\ mode # Some("tap")
        THEN Plan(Exc("ValueError", 0), <<>>)
        ELSE IF IsNone(ifr)
        THEN Plan(Exc("TypeError", 0), <<>>)
        ELSE IF Len(Val(ifr)) > IFNAMSIZ
        THEN Plan(Exc("ValueError", 0), <<>>)
        ELSE Plan(NoExc,
                  << Op("open", <<"/dev/net/tun">>),
                     Op("ioctl", <<"TUNSETIFF", Val(ifr), Val(mode)>>) >>
                  \o (IF IsNone(user) THEN <<>>
                      ELSE << Op("ioctl", <<"TUNSETOWNER">>) >>)
                  \o (IF IsNone(group) THEN <<>>
                      ELSE << Op("ioctl", <<"TUNSETGROUP">>) >>)
                  \o << Op("ioctl", <<"TUNSETPERSIST">>),
                        Op("close", <<"/dev/net/tun">>) >>)

compat_create_bridge(msg) ==
    Plan(NoExc, << Op("check_call", <<"brctl", "addbr">> \o NameOf(msg)) >>)

compat_create_bond(msg) ==
    Plan(NoExc, << Op("write", <<"/sys/class/net/bonding_masters", "+">>
                               \o NameOf(msg)) >>)

compat_del_bridge(msg) ==
    Plan(NoExc,
         << Op("check_call", <<"ip", "link", "set", "dev">> \o NameOf(msg)
                             \o <<"down">>),
            Op("check_call", <<"brctl", "delbr">> \o NameOf(msg)) >>)

compat_del_bond(msg) ==
    Plan(NoExc,
         << Op("check_call", <<"ip", "link", "set", "dev">> \o NameOf(msg)
                             \o <<"down">>),
            Op("write", <<"/sys/class/net/bonding_masters", "-">>
                        \o NameOf(msg)) >>)

SyncExecutors == {"manage_team", "manage_tuntap", "compat_create_bridge",
                  "compat_create_bond", "compat_del_bridge", "compat_del_bond"}

PlanOf(e, msg) ==
    CASE e = "manage_team" -> manage_team(msg)
      [] e = "manage_tuntap" -> manage_tuntap(msg)
      [] e = "compat_create_bridge" -> compat_create_bridge(msg)
      [] e = "compat_create_bond" -> compat_create_bond(msg)
      [] e = "compat_del_bridge" -> compat_del_bridge(msg)
      [] e = "compat_del_bond" -> compat_del_bond(msg)

\* the exceptions a failing external operation raises
FailuresOf(o) ==
    IF o.op = "check_call"
    THEN {Exc("CalledProcessError", 0), Exc("OSError", ENOENT)}
    ELSE {Exc("OSError", n) : n \in OSErrnos}

\* pyroute2.common.map_enoent around f: an OSError with errno ENOENT
\* becomes a NetlinkError with code EOPNOTSUPP, anything else passes
map_enoent(r) ==
    IF r.status = "raise" /\ r.exc = "OSError" /\ r.errno = ENOENT
    THEN [status |-> "raise", verdict |-> "", data |-> None,
          exc |-> "NetlinkError", errno |-> EOPNOTSUPP]
    ELSE r

\* the executors that are decorated with map_enoent
MapsEnoent == {"manage_team", "manage_team_port"}

\* the operations attempted when operation k of the plan fails (k = 0: none
\* fails); manage_tuntap closes the device in its finally clause
Attempted(plan, k) ==
    IF k = 0 THEN plan.ops
    ELSE SubSeq(plan.ops, 1, k)
         \o (IF plan.ops[1].op = "open" /\ k > 1 /\ k < Len(plan.ops)
             THEN <<plan.ops[Len(plan.ops)]>> ELSE <<>>)

(***************************************************************************)
(* The sync decorator: decorated() up to t.start().  The monitor thread    *)
(* gets the symbolic tag of the message type, the interface name and the   *)
(* read end of a fresh pipe.                                               *)
(***************************************************************************)
SyncCall(e, msg) ==
    /\ executor' = e
    /\ smsg' = msg
    /\ outcome' = NoOutcome
    /\ pipe' = 0
    /\ w_pc' = "started"
    /\ w_event' = PyStr(RTM_VALUES(msg.type))
    /\ w_ifname' = NameOf(msg)
    /\ w_why' = ""
    /\ bound' = FALSE
    /\ queue' = <<>>
    /\ pc' = "call"
    /\ UNCHANGED <<oplog, wret, result>>

\* a proxy entry point that returns or raises without a sync-wrapped call
Finish(r, log) ==
    /\ result' = r
    /\ oplog' = log
    /\ pc' = "done"
    /\ UNCHANGED <<syncvars, wret, monvars, pipe>>

(***************************************************************************)
(* proxy_newlink                                                           *)
(***************************************************************************)
NewLinkInfos ==
    {None, Some(LinkInfo(None, None))}
    \cup {Some(LinkInfo(Some(k), None)) : k \in Kinds}
    \cup {Some(LinkInfo(Some("tuntap"), Some(<<>>)))}
    \cup {Some(LinkInfo(Some("tuntap"), Some(<<<<"IFTUN_MODE", m>>>>))) :
          m \in {"tun", "tap", "bogus"}}

NewLinkMsgs ==
    { MkMsg(RTM_NEWLINK, 2, Some(n), li, None) :
      n \in {DevName, LongName}, li \in NewLinkInfos }

\* newlink_route with the bond branch gated by the bridge capability
newlink_route_mixed(kind, c) ==
    IF kind = Some("tuntap") THEN "manage_tuntap"
    ELSE IF kind = Some("team") THEN "manage_team"
    ELSE IF kind = Some("bond") /\ ~c.create_bridge THEN "compat_create_bond"
    ELSE IF kind = Some("bridge") /\ ~c.create_bridge
    THEN "compat_create_bridge"
    ELSE "none"

\* the executor proxy_newlink hands the message to, "none" to forward
newlink_route(kind, c) ==
    IF kind = Some("tuntap") THEN "manage_tuntap"
    ELSE IF kind = Some("team") THEN "manage_team"
    ELSE IF kind = Some("bond") /\ ~c.create_bond THEN "compat_create_bond"
    ELSE IF kind = Some("bridge") /\ ~c.create_bridge
    THEN "compat_create_bridge"
    ELSE "none"

proxy_newlink(im) ==
    LET msg == Decode(im.data)
        linkinfo == get_attr(msg, "IFLA_LINKINFO")
        kind == IF IsNone(linkinfo) THEN None
                ELSE get_attr(Val(linkinfo), "IFLA_INFO_KIND")
        e == newlink_route(kind, caps)
    IN  IF e # "none" THEN SyncCall(e, msg) ELSE Finish(Forward(im.data), <<>>)

NewLink ==
    /\ pc = "idle"
    /\ \E m \in NewLinkMsgs :
         /\ imsg' = [data |-> Encode(m)]
         /\ proxy_newlink(imsg')
    /\ op' = "newlink"
    /\ UNCHANGED <<envvars, live, lookups, kernvars>>

(***************************************************************************)
(* proxy_dellink                                                           *)
(***************************************************************************)
DelLinkMsgs ==
    { MkMsg(RTM_DELLINK, i, None, li, None) :
      i \in Indices,
      li \in {None} \cup {Some(LinkInfo(Some(k), None)) :
                          k \in {"bond", "bridge", "vlan"}} }

\* the executor proxy_dellink hands the live description to
dellink_route(kind, c) ==
    IF kind = Some("bond") /\ ~c.create_bond THEN "compat_del_bond"
    ELSE IF kind = Some("bridge") /\ ~c.create_bridge THEN "compat_del_bridge"
    ELSE "none"

\* proxy_dellink taking the kind from the caller's message
proxy_dellink_declared(im, tbl) ==
    LET orig_msg == Decode(im.data)
        msg == [tbl[orig_msg.index] EXCEPT !.type = orig_msg.type]
        li == get_attr(orig_msg, "IFLA_LINKINFO")
        kind == IF IsNone(li) THEN None
                ELSE get_attr(Val(li), "IFLA_INFO_KIND")
        e == dellink_route(kind, caps)
    IN  IF e # "none" THEN SyncCall(e, msg) ELSE Finish(Forward(im.data), <<>>)

proxy_dellink(im, tbl) ==
    LET orig_msg == Decode(im.data)
        msg == [tbl[orig_msg.index] EXCEPT !.type = orig_msg.type]
        li == get_attr(msg, "IFLA_LINKINFO")
        kind == IF IsNone(li) THEN None
                ELSE get_attr(Val(li), "IFLA_INFO_KIND")
        e == dellink_route(kind, caps)
    IN  IF e # "none" THEN SyncCall(e, msg) ELSE Finish(Forward(im.data), <<>>)

DelLink ==
    /\ pc = "idle"
    /\ \E m \in DelLinkMsgs, tbl \in LinkTables :
         /\ imsg' = [data |-> Encode(m)]
         /\ live' = tbl
         /\ lookups' = << Lookup("link", m.index, 0) >>
         /\ proxy_dellink(imsg', tbl)
    /\ op' = "dellink"
    /\ UNCHANGED <<envvars, kernvars>>

(***************************************************************************)
(* proxy_setlink                                                           *)
(***************************************************************************)
\* the attribute tables of the kinds, in the order a request lists them
AttrTable(kind) ==
    CASE kind = "bond" ->
           << <<"IFLA_BOND_MODE", 1>>, <<"IFLA_BOND_MIIMON", 100>>,
              <<"IFLA_BOND_UPDELAY", 200>>, <<"IFLA_BOND_DOWNDELAY", 300>>,
              <<"IFLA_BOND_USE_CARRIER", 1>> >>
      [] kind = "bridge" ->
           << <<"IFLA_BR_STP_STATE", 1>>, <<"IFLA_BR_MAX_AGE", 2000>>,
              <<"IFLA_BR_HELLO_TIME", 200>>, <<"IFLA_BR_FORWARD_DELAY", 1500>>,
              <<"IFLA_BR_PRIORITY", 32768>> >>
      [] OTHER ->
           << <<"IFLA_VLAN_ID", 10>>, <<"IFLA_VLAN_FLAGS", 1>>,
              <<"IFLA_VLAN_PROTOCOL", 33024>>, <<"IFLA_VLAN_QOS", 0>>,
              <<"IFLA_VLAN_EGRESS", 0>> >>

\* nla.nla2name: the sysfs file name of an attribute
nla2name(cmd) ==
    CASE cmd = "IFLA_BOND_MODE" -> "mode"
      [] cmd = "IFLA_BOND_MIIMON" -> "miimon"
      [] cmd = "IFLA_BOND_UPDELAY" -> "updelay"
      [] cmd = "IFLA_BOND_DOWNDELAY" -> "downdelay"
      [] cmd = "IFLA_BOND_USE_CARRIER" -> "use_carrier"
      [] cmd = "IFLA_BR_STP_STATE" -> "stp_state"
      [] cmd = "IFLA_BR_MAX_AGE" -> "max_age"
      [] cmd = "IFLA_BR_HELLO_TIME" -> "hello_time"
      [] cmd = "IFLA_BR_FORWARD_DELAY" -> "forward_delay"
      [] cmd = "IFLA_BR_PRIORITY" -> "priority"
      [] OTHER -> cmd

\* exit statuses of the shell that performs one attribute write
Codes == {0, 1, 2}

SetLinkInfos ==
    {None, Some(LinkInfo(Some("bond"), None))}
    \cup {Some(LinkInfo(Some(k), Some(SubSeq(AttrTable(k), 1, n)))) :
          k \in {"bond", "bridge", "vlan"}, n \in 0..MaxPairs}

SetLinkMsgs ==
    UNION { { MkMsg(RTM_SETLINK, i, n, li, m) :
              n \in {None, Some(IF i = 1 THEN PortName ELSE DevName)},
              li \in SetLinkInfos,
              m \in {None, Some(0), Some(2)} } : i \in Indices }

\* get_interface(index), the helper nested in proxy_setlink
get_interface(tbl, index) ==
    LET msg == tbl[index]
        li == get_attr(msg, "IFLA_LINKINFO")
    IN  [ifname |-> get_attr(msg, "IFLA_IFNAME"),
         master |-> get_attr(msg, "IFLA_MASTER"),
         kind |-> IF IsNone(li) THEN Some("unknown")
                  ELSE get_attr(Val(li), "IFLA_INFO_KIND")]

\* compat_set_bond / compat_set_bridge: echo value >/sys/class/net/.../cmd
compat_set(kind, name, cmd, value, rc) ==
    [op |-> "call",
     what |-> <<"echo", IF kind = "bond" THEN "bonding" ELSE "bridge",
                name, cmd>>,
     val |-> value,
     rc |-> rc]

\* the calls of "for (cmd, value) in infodata.get('attrs', [])"
set_writes(kind, name, pairs, rcs) ==
    [i \in 1..Len(pairs) |->
       compat_set(kind, name, nla2name(pairs[i][1]), pairs[i][2], rcs[i])]

\* "code = code or rc": the first non-zero return code is kept
RECURSIVE set_code_first(_)
set_code_first(rcs) ==
    IF Len(rcs) = 0 THEN 0
    ELSE LET code == set_code_first(SubSeq(rcs, 1, Len(rcs) - 1))
             rc == rcs[Len(rcs)]
         IN  IF code # 0 THEN code ELSE rc

\* "code = func(ifname, cmd, value)": only the last return code is kept
set_code_last_rc(rcs) ==
    IF Len(rcs) = 0 THEN 0 ELSE rcs[Len(rcs)]

\* "code = func(ifname, cmd, value) or code" over the calls' return codes
RECURSIVE set_code(_)
set_code(rcs) ==
    IF Len(rcs) = 0 THEN 0
    ELSE LET code == set_code(SubSeq(rcs, 1, Len(rcs) - 1))
             rc == rcs[Len(rcs)]
         IN  IF rc # 0 THEN rc ELSE code

manage_team_port(cmd, master, port, c) ==
    [ops |-> << Op("check_call",
                   <<"teamdctl", master, "port",
                     IF cmd = "del" THEN "remove" ELSE "add", port>>) >>,
     ret |-> None]

\* compat_bridge_port answering True after the brctl call as well
compat_bridge_port_true(cmd, master, port, c) ==
    IF c.create_bridge
    THEN [ops |-> <<>>, ret |-> Some(TRUE)]
    ELSE [ops |-> << Op("check_call",
                        <<"brctl", IF cmd = "del" THEN "delif" ELSE "addif",
                          master, port>>) >>,
          ret |-> Some(TRUE)]

compat_bridge_port(cmd, master, port, c) ==
    IF c.create_bridge
    THEN [ops |-> <<>>, ret |-> Some(TRUE)]
    ELSE [ops |-> << Op("check_call",
                        <<"brctl", IF cmd = "del" THEN "delif" ELSE "addif",
                          master, port>>) >>,
          ret |-> None]

\* compat_bond_port with the two entries of remap exchanged
compat_bond_port_swapped(cmd, master, port, c) ==
    IF c.create_bond
    THEN [ops |-> <<>>, ret |-> Some(TRUE)]
    ELSE [ops |-> << Op("write",
                        <<"/sys/class/net", master, "bonding/slaves",
                          IF cmd = "del" THEN "+" ELSE "-", port>>) >>,
          ret |-> None]

compat_bond_port(cmd, master, port, c) ==
    IF c.create_bond
    THEN [ops |-> <<>>, ret |-> Some(TRUE)]
    ELSE [ops |-> << Op("write",
                        <<"/sys/class/net", master, "bonding/slaves",
                          IF cmd = "del" THEN "-" ELSE "+", port>>) >>,
          ret |-> None]

\* forward_map[master['kind']](cmd, master['ifname'], ifname, nl)
port_call(kind, cmd, master, port, c) ==
    CASE kind = Some("team") -> manage_team_port(cmd, master, port, c)
      [] kind = Some("bridge") -> compat_bridge_port(cmd, master, port, c)
      [] kind = Some("bond") -> compat_bond_port(cmd, master, port, c)

\* Finish for a call that ran a port executor: out is how func(cmd, ...)
\* ended, r what proxy_setlink gives
FinishPort(r, log, out) ==
    /\ result' = r
    /\ oplog' = log
    /\ outcome' = out
    /\ pc' = "done"
    /\ UNCHANGED <<smsg, executor, wret, monvars, pipe>>

\* the name of the executor forward_map holds for a master kind
port_func(kind) ==
    CASE kind = Some("team") -> "manage_team_port"
      [] kind = Some("bridge") -> "compat_bridge_port"
      [] kind = Some("bond") -> "compat_bond_port"

\* "if code:" without the raise that follows it
attrs_failed_ignored(code) == FALSE

\* "if code:" after the attribute loop
attrs_failed(code) == code # 0

\* rcs are the return codes of the attribute writes, portfail tells
\* whether the port operation fails
proxy_setlink(im, tbl, rcs, portfail) ==
    LET msg == Decode(im.data)
        own == get_attr(msg, "IFLA_IFNAME")
        ifname == IF ~IsNone(own) THEN Val(own)
                  ELSE Val(get_interface(tbl, msg.index).ifname)
        linkinfo == get_attr(msg, "IFLA_LINKINFO")
        kind == IF IsNone(linkinfo) THEN None
                ELSE get_attr(Val(linkinfo), "IFLA_INFO_KIND")
        infodata == IF IsNone(linkinfo) THEN None
                    ELSE get_attr(Val(linkinfo), "IFLA_INFO_DATA")
        applies == kind \in {Some("bond"), Some("bridge")} /\ ~IsNone(infodata)
        pairs == IF applies THEN Val(infodata).attrs ELSE <<>>
        writes == IF applies /\ Len(rcs) = Len(pairs)
                  THEN set_writes(Val(kind), ifname, pairs, rcs)
                  ELSE <<>>
        code == set_code(rcs)
        attr == get_attr(msg, "IFLA_MASTER")
        cmd == IF attr = Some(0) THEN "del" ELSE "add"
        master == IF attr = Some(0)
                  THEN get_interface(tbl,
                          Val(get_interface(tbl, msg.index).master))
                  ELSE get_interface(tbl, Val(attr))
        port == port_call(master.kind, cmd, Val(master.ifname), ifname, caps)
        lk_name == IF IsNone(own) THEN << Lookup("ifname", msg.index, 0) >>
                   ELSE <<>>
        lk_master ==
            IF attr = Some(0)
            THEN << Lookup("iface", msg.index, Len(writes)),
                    Lookup("master",
                           Val(get_interface(tbl, msg.index).master),
                           Len(writes)) >>
            ELSE << Lookup("master", Val(attr), Len(writes)) >>
        through(r) == IF port_func(master.kind) \in MapsEnoent
                      THEN map_enoent(r) ELSE r
    IN  /\ Len(rcs) = Len(pairs)
        /\ attr = Some(0) => ~IsNone(get_interface(tbl, msg.index).master)
        /\ IF attrs_failed(code)
           THEN /\ ~portfail
                /\ lookups' = lk_name
                /\ Finish(Raise("OSError", code), writes)
           ELSE IF IsNone(attr)
           THEN /\ ~portfail
                /\ lookups' = lk_name
                /\ Finish(Forward(im.data), writes)
           ELSE IF master.kind \notin {Some("team"), Some("bridge"),
                                       Some("bond")}
           THEN /\ ~portfail
                /\ lookups' = lk_name \o lk_master
                /\ Finish(Forward(im.data), writes)
           ELSE IF portfail
           THEN /\ Len(port.ops) > 0
                /\ lookups' = lk_name \o lk_master
                /\ \E x \in FailuresOf(port.ops[1]) :
                      FinishPort(through(Raise(x.exc, x.errno)),
                                 writes \o port.ops,
                                 [status |-> "raise", exc |-> x.exc,
                                  errno |-> x.errno])
           ELSE /\ lookups' = lk_name \o lk_master
                /\ FinishPort(IF IsNone(port.ret) THEN ReturnNone
                              ELSE Forward(im.data),
                              writes \o port.ops,
                              [status |-> "ok", exc |-> "", errno |-> 0])

SetLink ==
    /\ pc = "idle"
    /\ \E m \in SetLinkMsgs, tbl \in LinkTables, portfail \in BOOLEAN,
          n \in 0..MaxPairs :
         \E rcs \in [1..n -> Codes] :
            /\ imsg' = [data |-> Encode(m)]
            /\ live' = tbl
            /\ proxy_setlink(imsg', tbl, rcs, portfail)
    /\ op' = "setlink"
    /\ UNCHANGED <<envvars, kernvars>>

(***************************************************************************)
(* decorated(), after t.start(): ret = f(msg), then the finally clause.    *)
(***************************************************************************)
\* ret = f(msg): the executor runs; operation k of its plan fails, or none
Execute ==
    /\ pc = "call"
    /\ LET plan == PlanOf(executor, smsg)
       IN  IF plan.pre # NoExc
           THEN /\ outcome' = [status |-> "raise", exc |-> plan.pre.exc,
                               errno |-> plan.pre.errno]
                /\ oplog' = oplog
           ELSE \E k \in 0..Len(plan.ops) :
                  /\ k > 0 => plan.ops[k].op # "close"
                  /\ oplog' = oplog \o Attempted(plan, k)
                  /\ IF k = 0
                     THEN outcome' = [status |-> "ok", exc |-> "", errno |-> 0]
                     ELSE \E x \in FailuresOf(plan.ops[k]) :
                            outcome' = [status |-> "raise", exc |-> x.exc,
                                        errno |-> x.errno]
    /\ pc' = "finally"
    /\ UNCHANGED <<envvars, callvars, smsg, executor, wret, result, monvars,
                   pipe, kernvars>>

\* os.write(cmd, b'q')
Cancel ==
    /\ pc = "finally"
    /\ pipe' = pipe + 1
    /\ pc' = "join"
    /\ UNCHANGED <<envvars, callvars, syncvars, oplog, wret, result, monvars,
                   kernvars>>

\* Join without t.join(): the call returns whatever the monitor does
Join_no_wait ==
    /\ pc = "join"
    /\ wret' = IF outcome.status = "ok" THEN ReturnNone
               ELSE Raise(outcome.exc, outcome.errno)
    /\ result' = IF executor \in MapsEnoent THEN map_enoent(wret') ELSE wret'
    /\ pc' = "done"
    /\ UNCHANGED <<envvars, callvars, syncvars, oplog, monvars, pipe,
                   kernvars>>

\* Join with the exception of the executor swallowed
Join_swallow ==
    /\ pc = "join"
    /\ w_pc = "terminated"
    /\ wret' = ReturnNone
    /\ result' = wret'
    /\ pc' = "done"
    /\ UNCHANGED <<envvars, callvars, syncvars, oplog, monvars, pipe,
                   kernvars>>

\* t.join(), the two os.close() and "return ret" or the re-raise; the
\* entry point returns what decorated() gives, through map_enoent where the
\* executor carries that decorator
Join ==
    /\ pc = "join"
    /\ w_pc = "terminated"
    /\ wret' = IF outcome.status = "ok" THEN ReturnNone
               ELSE Raise(outcome.exc, outcome.errno)
    /\ result' = IF executor \in MapsEnoent THEN map_enoent(wret') ELSE wret'
    /\ pc' = "done"
    /\ UNCHANGED <<envvars, callvars, syncvars, oplog, monvars, pipe,
                   kernvars>>

(***************************************************************************)
(* monitor(event, ifname, cmd), the thread started by decorated().         *)
(***************************************************************************)
\* RawIPRSocket(), the two poll.register() and ipr.bind()
MonitorBind ==
    /\ w_pc = "started"
    /\ w_pc' = "polling"
    /\ bound' = TRUE
    /\ UNCHANGED <<envvars, callvars, syncvars, oplog, wret, result, pc,
                   w_event, w_ifname, w_why, queue, pipe, kernvars>>

\* "for msg in msgs": some message of the batch equals event and ifname
BatchMatches(msgs, event, ifname) ==
    \E i \in 1..Len(msgs) :
       /\ PyStr(msgs[i].event) = event
       /\ Some(msgs[i].ifname) = ifname

\* "for (fd, event) in events": the loop variable is the monitor's event;
\* the result is the state of the monitor when the loop ends or returns
RECURSIVE ForEvents(_, _, _, _)
ForEvents(events, event, q, ifname) ==
    IF Len(events) = 0
    THEN [event |-> event, queue |-> q, why |-> ""]
    ELSE LET ev == PyInt(POLLIN)
         IN  IF Head(events) = "ipr"
             THEN IF BatchMatches(Head(q), ev, ifname)
                  THEN [event |-> ev, queue |-> Tail(q), why |-> "match"]
                  ELSE ForEvents(Tail(events), ev, Tail(q), ifname)
             ELSE [event |-> ev, queue |-> q, why |-> "cancel"]

\* the descriptor lists poll.poll() may return
Ready ==
    IF Len(queue) > 0 /\ pipe > 0 THEN {<<"ipr", "cmd">>, <<"cmd", "ipr">>}
    ELSE IF Len(queue) > 0 THEN {<<"ipr">>}
    ELSE IF pipe > 0 THEN {<<"cmd">>}
    ELSE {}

\* one round of "while True": poll.poll() and the loop over its events
MonitorPoll ==
    /\ w_pc = "polling"
    /\ \E events \in Ready :
         LET r == ForEvents(events, w_event, queue, w_ifname)
         IN  /\ w_event' = r.event
             /\ queue' = r.queue
             /\ w_why' = r.why
             /\ w_pc' = IF r.why = "" THEN "polling" ELSE "terminated"
             /\ bound' = (r.why = "")
    /\ UNCHANGED <<envvars, callvars, syncvars, oplog, wret, result, pc,
                   w_ifname, pipe, kernvars>>

(***************************************************************************)
(* The kernel emits a batch of link notifications; it reaches the          *)
(* monitor's socket only if that socket is bound.                          *)
(***************************************************************************)
Awaited(batch) ==
    \E i \in 1..Len(batch) :
       /\ batch[i].event = RTM_VALUES(smsg.type)
       /\ Some(batch[i].ifname) = NameOf(smsg)

KernelNotify ==
    /\ pc \in {"call", "finally", "join"}
    /\ nsent < MaxNotify
    /\ \E b \in Batches :
         /\ queue' = IF bound THEN Append(queue, b) ELSE queue
         /\ match_sent' = (match_sent \/ Awaited(b))
    /\ nsent' = nsent + 1
    /\ UNCHANGED <<envvars, callvars, syncvars, oplog, wret, result, pc,
                   w_pc, w_event, w_ifname, w_why, bound, pipe>>

\* the caller takes the result; the proxy is ready for the next request
Return ==
    /\ pc = "done"
    /\ pc' = "idle"
    /\ op' = "none"
    /\ imsg' = [data |-> Encode(NoMsg)]
    /\ live' = NoTable
    /\ lookups' = <<>>
    /\ smsg' = NoMsg
    /\ executor' = "none"
    /\ outcome' = NoOutcome
    /\ oplog' = <<>>
    /\ wret' = NoResult
    /\ result' = NoResult
    /\ w_pc' = "none"
    /\ w_event' = PyStr("")
    /\ w_ifname' = None
    /\ w_why' = ""
    /\ bound' = FALSE
    /\ queue' = <<>>
    /\ pipe' = 0
    /\ nsent' = 0
    /\ match_sent' = FALSE
    /\ UNCHANGED envvars

Next ==
    \/ NewLink
    \/ DelLink
    \/ SetLink
    \/ Execute
    \/ Cancel
    \/ Join
    \/ MonitorBind
    \/ MonitorPoll
    \/ KernelNotify
    \/ Return

Spec == Init /\ [][Next]_vars

(***************************************************************************)
(* Properties of the sync decorator.                                       *)
(***************************************************************************)
\* a sync-wrapped call has returned to the proxy's caller
SyncDone == pc = "done" /\ executor # "none"

\* C1: a sync-wrapped call whose executor returned without error returns
\* success only if its monitor returned because it saw the notification
\* matching the message type and the interface name, and the control pipe
\* is not written on the success path before that match.
C1_SuccessOnlyAfterMatch ==
    /\ (SyncDone /\ result.status = "return") => w_why = "match"
    /\ (executor # "none" /\ outcome.status = "ok" /\ pipe > 0)
         => w_why = "match"

\* C2: the wrapper returns, or lets the exception through, only after the
\* executor has finished and the monitor thread has terminated; the call
\* has never returned while its monitor is still running.
C2_ReturnsAfterJoin ==
    /\ SyncDone => (outcome.status \in {"ok", "raise"} /\ w_pc = "terminated")
    /\ w_pc \in {"started", "polling"} => pc \in {"call", "finally", "join"}

C2_Witness ==
    /\ SyncDone
    /\ result.status = "return"
    /\ w_pc = "terminated"
    /\ nsent > 0

\* C3: when the executor raises, the control pipe is written, the monitor
\* returns without a match and is joined, and the caller receives the
\* executor's own exception.
C3_FailurePropagates ==
    (SyncDone /\ outcome.status = "raise")
      => /\ pipe > 0
         /\ w_pc = "terminated"
         /\ w_why = "cancel"
         /\ wret = Raise(outcome.exc, outcome.errno)

C3_Witness ==
    /\ SyncDone
    /\ outcome.status = "raise"
    /\ outcome.exc = "CalledProcessError"
    /\ wret.status = "raise"
    /\ Len(oplog) > 0

\* C4: the wrapper has no timeout: when the executor returned successfully
\* and the kernel emitted no notification matching the message type and the
\* interface name, the call does not return.
C4_BlocksWithoutNotification ==
    (executor # "none" /\ outcome.status = "ok" /\ ~match_sent)
      => pc # "done"

\* C5: the notification socket is bound before the executor is invoked:
\* the executor has never acted while the monitor has still to bind.
C5_BoundBeforeExecutor ==
    (executor # "none" /\ pc \in {"finally", "join", "done"})
      => w_pc # "started"

(***************************************************************************)
(* Properties of proxy_setlink.                                            *)
(***************************************************************************)
SetDone == pc = "done" /\ op = "setlink"

\* the request as the caller sent it
ReqMsg == Decode(imsg.data)
ReqLinkInfo == get_attr(ReqMsg, "IFLA_LINKINFO")
ReqKind == IF IsNone(ReqLinkInfo) THEN None
           ELSE get_attr(Val(ReqLinkInfo), "IFLA_INFO_KIND")
ReqData == IF IsNone(ReqLinkInfo) THEN None
           ELSE get_attr(Val(ReqLinkInfo), "IFLA_INFO_DATA")
ReqMaster == get_attr(ReqMsg, "IFLA_MASTER")
\* the (attribute, value) pairs of a bond or bridge info-data block
ReqPairs == IF ReqKind \in {Some("bond"), Some("bridge")} /\ ~IsNone(ReqData)
            THEN Val(ReqData).attrs ELSE <<>>
\* the name the request's interface goes by
ReqIfname == IF ~IsNone(NameOf(ReqMsg)) THEN Val(NameOf(ReqMsg))
             ELSE Val(NameOf(live[ReqMsg.index]))

\* the attribute writes that were attempted, and those that failed
AttrWrites == SelectSeq(oplog, LAMBDA e : e.op = "call")
Failing == {i \in 1..Len(AttrWrites) : AttrWrites[i].rc # 0}
FirstFailing == CHOOSE i \in Failing : \A j \in Failing : i <= j
LastFailing == CHOOSE i \in Failing : \A j \in Failing : j <= i

\* one write per pair of the request, in the order of the request
AllAttempted ==
    /\ Len(AttrWrites) = Len(ReqPairs)
    /\ SubSeq(oplog, 1, Len(ReqPairs)) = AttrWrites
    /\ \A i \in 1..Len(ReqPairs) :
          /\ AttrWrites[i].what[3] = ReqIfname
          /\ AttrWrites[i].what[4] = nla2name(ReqPairs[i][1])
          /\ AttrWrites[i].val = ReqPairs[i][2]

\* C6 as stated: all N writes of a bond or bridge info-data block are
\* attempted in order, and when two or more return non-zero codes the
\* operation fails with the code of the first failing write.
C6_FirstFailingCode ==
    SetDone =>
      /\ AllAttempted
      /\ Cardinality(Failing) >= 2
           => result = Raise("OSError", AttrWrites[FirstFailing].rc)

\* C6 amended: all N writes are attempted in order, and when two or more
\* return non-zero codes the operation fails with the code of the last
\* failing write.
C6_LastFailingCode ==
    SetDone =>
      /\ AllAttempted
      /\ Cardinality(Failing) >= 2
           => result = Raise("OSError", AttrWrites[LastFailing].rc)

C6_Witness ==
    /\ SetDone
    /\ Cardinality(Failing) >= 2
    /\ AttrWrites[FirstFailing].rc # AttrWrites[LastFailing].rc
    /\ result.status = "raise"

\* C7: when exactly one of the N writes returns a non-zero code E, at any
\* position, the operation fails with an OSError of errno E, all N writes
\* were attempted and no forward verdict is returned.
C7_SingleFailure ==
    (SetDone /\ Cardinality(Failing) = 1) =>
      /\ AllAttempted
      /\ result = Raise("OSError", AttrWrites[FirstFailing].rc)
      /\ result.verdict # "forward"

C7_Witness ==
    /\ SetDone
    /\ Len(ReqPairs) = 3
    /\ Failing = {1}
    /\ result.status = "raise"

\* the writes to a bonding slaves file
SlavesWrites ==
    SelectSeq(oplog, LAMBDA e : e.op = "write" /\ e.what[3] = "bonding/slaves")
SlavesWrite(master, sign, port) ==
    Op("write", <<"/sys/class/net", master, "bonding/slaves", sign, port>>)

\* the request attaches its port to a master whose live kind is bond
AttachToBond ==
    /\ ~IsNone(ReqMaster)
    /\ Val(ReqMaster) # 0
    /\ get_interface(live, Val(ReqMaster)).kind = Some("bond")
\* the request detaches its port, whose current master is a bond
DetachFromBond ==
    /\ ReqMaster = Some(0)
    /\ ~IsNone(get_interface(live, ReqMsg.index).master)
    /\ get_interface(live,
          Val(get_interface(live, ReqMsg.index).master)).kind = Some("bond")
CurrentMaster == Val(get_interface(live, ReqMsg.index).master)

PortWritten ==
    /\ AttachToBond =>
         SlavesWrites = << SlavesWrite(Val(NameOf(live[Val(ReqMaster)])),
                                       "+", ReqIfname) >>
    /\ DetachFromBond =>
         SlavesWrites = << SlavesWrite(Val(NameOf(live[CurrentMaster])),
                                       "-", ReqIfname) >>
    /\ (AttachToBond \/ DetachFromBond) => result.verdict # "forward"

\* C8 as stated: without create_bond, a request with a non-zero master
\* whose live kind is bond makes exactly one write of +P to that master's
\* slaves file, a request with master 0 whose current master is a bond
\* makes exactly one write of -P, and neither is forwarded.
C8_PortWrite ==
    (SetDone /\ ~caps.create_bond) => PortWritten

\* C8 amended: the same, for requests whose bond or bridge attribute
\* writes, if any, all returned 0.
C8_PortWriteAfterAttrs ==
    (SetDone /\ ~caps.create_bond /\ Failing = {}) => PortWritten

C8_Witness ==
    /\ SetDone
    /\ ~caps.create_bond
    /\ DetachFromBond
    /\ Len(SlavesWrites) = 1
    /\ result = ReturnNone

(***************************************************************************)
(* Properties of proxy_newlink and proxy_dellink.                          *)
(***************************************************************************)
\* C9: create-link routing follows the declared kind and the capabilities:
\* tuntap and team always go to their executors, bond and bridge go to the
\* legacy create executor iff the capability is false, and in every other
\* case no executor runs and the caller's bytes are forwarded.
C9_NewLinkRouting ==
    (op = "newlink" /\ pc # "idle") =>
      /\ ReqKind = Some("tuntap") => executor = "manage_tuntap"
      /\ ReqKind = Some("team") => executor = "manage_team"
      /\ ReqKind = Some("bond") =>
           executor = IF ~caps.create_bond THEN "compat_create_bond"
                      ELSE "none"
      /\ ReqKind = Some("bridge") =>
           executor = IF ~caps.create_bridge THEN "compat_create_bridge"
                      ELSE "none"
      /\ ReqKind \notin {Some("tuntap"), Some("team"), Some("bond"),
                         Some("bridge")} => executor = "none"
      /\ executor = "none" =>
           /\ pc = "done"
           /\ oplog = <<>>
           /\ result = Forward(imsg.data)

C9_Witness ==
    /\ op = "newlink"
    /\ executor = "compat_create_bond"
    /\ caps.create_bridge
    /\ Len(oplog) > 0

\* the kind the live link table reports for the request's index
LiveInfo == get_attr(live[ReqMsg.index], "IFLA_LINKINFO")
LiveKind == IF IsNone(LiveInfo) THEN None
            ELSE get_attr(Val(LiveInfo), "IFLA_INFO_KIND")

\* C10: delete-link routing follows the live kind of the request's index
\* and the capabilities, never the kind the caller declared: the legacy
\* delete executor runs iff the live kind is bond without create_bond or
\* bridge without create_bridge, and gets the live description with the
\* request's message type; otherwise the caller's bytes are forwarded.
C10_DelLinkRouting ==
    (op = "dellink" /\ pc # "idle") =>
      /\ executor =
           IF LiveKind = Some("bond") /\ ~caps.create_bond
           THEN "compat_del_bond"
           ELSE IF LiveKind = Some("bridge") /\ ~caps.create_bridge
           THEN "compat_del_bridge"
           ELSE "none"
      /\ executor = "none" =>
           /\ pc = "done"
           /\ oplog = <<>>
           /\ result = Forward(imsg.data)
      /\ executor # "none" =>
           smsg = [live[ReqMsg.index] EXCEPT !.type = ReqMsg.type]

C10_Witness ==
    /\ op = "dellink"
    /\ executor = "compat_del_bond"
    /\ ReqKind = Some("vlan")
    /\ smsg.type = RTM_DELLINK
    /\ Len(oplog) > 0

(***************************************************************************)
(* proxy_setlink: what is forwarded, and the order of its steps            *)
(***************************************************************************)

\* the master the port branch looks up, and its kind
MasterIndex == IF ReqMaster = Some(0) THEN CurrentMaster ELSE Val(ReqMaster)
MasterKind == get_interface(live, MasterIndex).kind

\* the port operation is one a legacy executor carries out
Emulated ==
    /\ ~IsNone(ReqMaster)
    /\ \/ MasterKind = Some("team")
       \/ MasterKind = Some("bridge") /\ ~caps.create_bridge
       \/ MasterKind = Some("bond") /\ ~caps.create_bond

\* the entries of the log that are not attribute writes
PortOps == SelectSeq(oplog, LAMBDA e : e.op # "call")

\* C19: a modify-link call in which nothing fails forwards the caller's
\* own bytes, except when a legacy executor carried out the port operation
\* (team port, bridge or bond port without the create capability): then
\* nothing is forwarded.  Without such an executor no port action is taken.
C19_SetLinkForward ==
    SetDone =>
        /\ (Failing = {} /\ ~Emulated) =>
              (result = Forward(imsg.data) /\ PortOps = <<>>)
        /\ (Emulated /\ result.status = "return") =>
              (result = ReturnNone /\ Len(PortOps) = 1)

C19_Witness ==
    /\ SetDone
    /\ Emulated
    /\ MasterKind = Some("bridge")
    /\ Len(AttrWrites) > 0
    /\ result = ReturnNone

\* the lookups of the port branch
MasterLookups == SelectSeq(lookups, LAMBDA l : l.what \in {"iface", "master"})

\* C20: for a request with both a bond or bridge info-data block and a
\* master attribute, a non-zero code from any attribute write makes the
\* call fail with no master lookup and no port operation; when every write
\* returns 0, the master lookups and the port operation come after the
\* last write.
C20_AttrsGatePort ==
    (SetDone /\ ReqPairs # <<>> /\ ~IsNone(ReqMaster)) =>
        /\ Failing # {} =>
              /\ result.status = "raise"
              /\ MasterLookups = <<>>
              /\ PortOps = <<>>
        /\ Failing = {} =>
              /\ MasterLookups # <<>>
              /\ \A i \in 1..Len(MasterLookups) :
                    MasterLookups[i].at = Len(ReqPairs)
              /\ SubSeq(oplog, 1, Len(ReqPairs)) = AttrWrites
              /\ Emulated =>
                    /\ Len(oplog) = Len(ReqPairs) + 1
                    /\ oplog[Len(oplog)].op # "call"

C20_Witness ==
    /\ SetDone
    /\ ReqPairs # <<>>
    /\ ~IsNone(ReqMaster)
    /\ Failing # {}
    /\ AttrWrites[1].rc = 0
    /\ result.status = "raise"

(***************************************************************************)
(* external executables that are not installed                             *)
(***************************************************************************)

\* the last operation of the call was the start of an external executable,
\* and it failed because the executable does not exist
NotFound ==
    /\ pc = "done"
    /\ Len(oplog) > 0
    /\ oplog[Len(oplog)].op = "check_call"
    /\ outcome.status = "raise"
    /\ outcome.exc = "OSError"
    /\ outcome.errno = ENOENT

\* C15: when the control executable of a legacy executor (teamd, teamdctl,
\* brctl, ip) is not found, the failure is absorbed: the proxy call
\* completes without raising.
C15_NotFoundAbsorbed == NotFound => result.status = "return"

(***************************************************************************)
(* manage_tuntap                                                           *)
(***************************************************************************)

\* manage_tuntap has run on smsg
TunDone == executor = "manage_tuntap" /\ outcome.status # "none"

TunInfo == get_attr(smsg, "IFLA_LINKINFO")
TunData == IF IsNone(TunInfo) THEN None
           ELSE get_attr(Val(TunInfo), "IFLA_INFO_DATA")
\* the mode attribute of the request, None when it has none
TunMode == IF IsNone(TunData) THEN None
           ELSE get_attr(Val(TunData), "IFTUN_MODE")
BadMode == TunMode \notin {Some("tun"), Some("tap")}
LongIfname == ~IsNone(NameOf(smsg)) /\ Len(Val(NameOf(smsg))) > IFNAMSIZ

\* /dev/net/tun was opened
TunOpened == Len(oplog) > 1 /\ oplog[1].op = "open"
Closes == SelectSeq(oplog, LAMBDA e : e.op = "close")

\* C14: tun/tap creation with no mode attribute, with a mode other than
\* tun or tap, or with a name of more than 16 characters is rejected with
\* a validation error (ValueError) and no open or ioctl; on a machine
\* without ioctl numbers it is rejected as not supported with no open;
\* once the device is opened it is closed, exactly once and last, however
\* the executor ends.
C14_TunTapRejected ==
    TunDone =>
        /\ IsNone(TUNSETIFF) =>
              /\ outcome = [status |-> "raise", exc |-> "NetlinkError",
                            errno |-> EOPNOTSUPP]
              /\ oplog = <<>>
        /\ (~IsNone(TUNSETIFF) /\ (BadMode \/ LongIfname)) =>
              /\ outcome.status = "raise"
              /\ outcome.exc = "ValueError"
              /\ oplog = <<>>
        /\ TunOpened =>
              /\ Len(Closes) = 1
              /\ oplog[Len(oplog)].op = "close"

(***************************************************************************)
(* The monitor and the batches it reads                                    *)
(***************************************************************************)

\* the monitor reads the batch at the head of its socket in this step
ReadsBatch == w_pc = "polling" /\ Len(queue') < Len(queue)

\* C16: when the waiting monitor reads a batch that holds a message with
\* the symbolic tag of the request's type and the name of the target
\* interface, it terminates with a match at that batch; a batch without
\* such a message does not make it match.
C16_MatchTerminates ==
    [][ReadsBatch => (Awaited(Head(queue)) <=> w_why' = "match")]_vars

(***************************************************************************)
(* proxy_linkinfo: the enrichment of link messages from sysfs              *)
(***************************************************************************)
\* the number of attribute files a kind's sysfs directory may hold, and
\* the number of messages a batch may hold
MaxFiles == 2
MaxBatch == 2

\* the type of a netlink error message; marshal.parse tags it NLMSG_ERROR
NLMSG_ERROR == 2

\* compat_get_master: the bridge-port file first, then the bonding one
compat_get_master(fs, name) ==
    IF ~IsNone(fs[name].brport) THEN fs[name].brport ELSE fs[name].master

\* get_interface_type: the kind, or the errno of the OSError it re-raises
get_interface_type(fs, name) ==
    LET ls == fs[name].ls
    IN  IF ls.errno = ENOENT THEN [kind |-> "unknown", errno |-> 0]
        ELSE IF ls.errno # 0 THEN [kind |-> "", errno |-> ls.errno]
        ELSE IF "bonding" \in ls.names THEN [kind |-> "bond", errno |-> 0]
        ELSE IF "bridge" \in ls.names THEN [kind |-> "bridge", errno |-> 0]
        ELSE [kind |-> "unknown", errno |-> 0]

\* int(value): defined for a text of one numeric token
py_int(toks) ==
    IF Len(toks) = 1 /\ toks[1].t = "int" THEN Some(toks[1].n) ELSE None

\* the body of "try:" for one attribute: None when open, split()[1] or int
\* raises
read_value(cmd, content) ==
    IF IsNone(content) THEN None
    ELSE IF cmd = "IFLA_BOND_MODE"
    THEN IF Len(Val(content)) < 2 THEN None
         ELSE py_int(<< Val(content)[2] >>)
    ELSE py_int(Val(content))

\* "for cmd, _ in ifdata.nla_map": the commands list
RECURSIVE read_commands(_, _, _)
read_commands(table, files, i) ==
    IF i > Len(table) THEN <<>>
    ELSE LET cmd == table[i][1]
             v == read_value(cmd, files[i])
         IN  (IF IsNone(v) THEN <<>> ELSE << <<cmd, Val(v)>> >>)
             \o read_commands(table, files, i + 1)

\* li['attrs'].append(...) on the link-info block of the message
append_to_linkinfo(m, a) ==
    [m EXCEPT !.attrs =
        [k \in 1..Len(m.attrs) |->
            IF m.attrs[k][1] = "IFLA_LINKINFO"
            THEN <<"IFLA_LINKINFO",
                   [attrs |-> Append(m.attrs[k][2].attrs, a)]>>
            ELSE m.attrs[k]]]

\* the condition under which the info-data block is fetched
fetch_data(kind, li) ==
    /\ kind \in {"bridge", "bond"}
    /\ \E k \in 1..Len(li.attrs) : li.attrs[k][1] = "IFLA_INFO_DATA"

\* compat_fix_attrs: the message as it is left, and the errno of the
\* OSError if one is raised (0: none)
compat_fix_attrs(msg, c, fs) ==
    LET ifname == Val(NameOf(msg))
        master == compat_get_master(fs, ifname)
        m1 == IF ~c.provide_master /\ ~IsNone(master)
              THEN [msg EXCEPT !.attrs =
                       Append(@, <<"IFLA_MASTER", Val(master)>>)]
              ELSE msg
        li == get_attr(m1, "IFLA_LINKINFO")
        declared == IF IsNone(li) THEN None
                    ELSE get_attr(Val(li), "IFLA_INFO_KIND")
        probe == get_interface_type(fs, ifname)
        kind == IF IsNone(declared) THEN probe.kind ELSE Val(declared)
        m2 == IF ~IsNone(declared) THEN m1
              ELSE IF ~IsNone(li)
              THEN append_to_linkinfo(m1, <<"IFLA_INFO_KIND", kind>>)
              ELSE [m1 EXCEPT !.attrs =
                       Append(@, <<"IFLA_LINKINFO",
                                   [attrs |-> << <<"IFLA_INFO_KIND",
                                                   kind>> >>]>>)]
        commands == read_commands(AttrTable(kind), fs[ifname].files, 1)
        m3 == IF fetch_data(kind, Val(get_attr(m2, "IFLA_LINKINFO")))
                 /\ commands # <<>>
              THEN append_to_linkinfo(m2, <<"IFLA_INFO_DATA",
                                           [attrs |-> commands]>>)
              ELSE m2
    IN  IF IsNone(declared) /\ probe.errno # 0
        THEN [msg |-> m1, errno |-> probe.errno]
        ELSE [msg |-> m3, errno |-> 0]

\* one round of "for msg in inbox" with the OSError let through
linkinfo_step_raising(chunk, c, fs) ==
    LET msg == Decode(chunk)
        r == compat_fix_attrs(msg, c, fs)
    IN  IF msg.type = NLMSG_ERROR THEN [out |-> chunk, errno |-> 0]
        ELSE [out |-> Encode(r.msg), errno |-> r.errno]

\* one round of "for msg in inbox": what is added to data, and the errno
\* of an OSError that leaves the loop (0: none)
linkinfo_step(chunk, c, fs) ==
    LET msg == Decode(chunk)
        r == compat_fix_attrs(msg, c, fs)
    IN  IF msg.type = NLMSG_ERROR THEN [out |-> chunk, errno |-> 0]
        ELSE [out |-> Encode(r.msg), errno |-> 0]

\* proxy_linkinfo(data, nl)
RECURSIVE linkinfo_loop(_, _, _, _)
linkinfo_loop(d, c, fs, out) ==
    IF Len(d) = 0 THEN Forward(out)
    ELSE LET r == linkinfo_step(Head(d), c, fs)
         IN  IF r.errno # 0 THEN Raise("OSError", r.errno)
             ELSE linkinfo_loop(Tail(d), c, fs, Append(out, r.out))

proxy_linkinfo(d, c, fs) == linkinfo_loop(d, c, fs, <<>>)

\* the link messages of a kernel answer about the device: with or without
\* a link-info block, a declared kind, an info-data block and a master
InfoLinkInfos ==
    {None, Some(LinkInfo(None, None))}
    \cup {Some(LinkInfo(Some(k), None)) : k \in {"bond", "bridge", "vlan"}}
    \cup {Some(LinkInfo(Some(k), Some(<< AttrTable(k)[1] >>))) :
          k \in {"bond", "bridge"}}

DevChunks ==
    { Encode(MkMsg(RTM_NEWLINK, 2, Some(DevName), li, m)) :
      li \in InfoLinkInfos, m \in {None, Some(1)} }

\* a message about the port, and a netlink error message with its payload
PortChunk == Encode(MkMsg(RTM_NEWLINK, 1, Some(PortName), None, None))
ErrChunk == [bytes |-> <<NLMSG_ERROR, 0, <<>>, "payload">>]

\* the batches: a message about the device after up to MaxBatch - 1 others
InfoBatches ==
    UNION { { pre \o <<d>> : pre \in [1..n -> {PortChunk, ErrChunk}],
                             d \in DevChunks } : n \in 0..(MaxBatch - 1) }

\* the contents of an attribute file: missing or unreadable, a number, a
\* name followed by a number
Contents == {None, Some(<<PyInt(7)>>), Some(<<PyStr("balance-rr"), PyInt(0)>>)}

\* only the first MaxFiles files of a table can be opened
FileSets ==
    { [i \in 1..Len(AttrTable("bond")) |->
          IF i <= MaxFiles THEN f[i] ELSE None] :
      f \in [1..MaxFiles -> Contents] }

Listings ==
    {Listing(0, n) : n \in {{}, {"bonding"}, {"bridge"}}}
    \cup {Listing(e, {}) : e \in {ENOENT} \cup OSErrnos}

DevSys ==
    { SysEntry(br, bm, ls, f) :
      br \in {None, Some(1)}, bm \in {None, Some(2)},
      ls \in Listings, f \in FileSets }

\* the port: enslaved to a bridge, or in a directory that cannot be listed
PortSys ==
    { SysEntry(Some(2), None, Listing(0, {}),
               [i \in 1..Len(AttrTable("bond")) |-> None]) }
    \cup { SysEntry(None, None, Listing(e, {}),
                    [i \in 1..Len(AttrTable("bond")) |-> None]) :
           e \in OSErrnos }

SysfsStates ==
    { [n \in Names |-> IF n = PortName THEN ps ELSE ds] :
      ps \in PortSys, ds \in DevSys }

\* no call in progress
NoCall ==
    /\ pc = "idle"
    /\ op = "none"
    /\ imsg = [data |-> Encode(NoMsg)]
    /\ live = NoTable
    /\ lookups = <<>>
    /\ smsg = NoMsg
    /\ executor = "none"
    /\ outcome = NoOutcome
    /\ oplog = <<>>
    /\ wret = NoResult
    /\ result = NoResult
    /\ w_pc = "none"
    /\ w_event = PyStr("")
    /\ w_ifname = None
    /\ w_why = ""
    /\ bound = FALSE
    /\ queue = <<>>
    /\ pipe = 0
    /\ nsent = 0
    /\ match_sent = FALSE

\* the variables the info-response path does not touch
othervars == <<caps, machine, calls, pipes, socks, imsg, live, lookups, smsg, executor, outcome,
               oplog, wret, w_pc, w_event, w_ifname, w_why, bound, queue,
               pipe, nsent, match_sent>>

InitInfo ==
    /\ caps \in [create_bond : {FALSE}, create_bridge : {FALSE},
                  provide_master : BOOLEAN]
    /\ machine = "x86_64"
    /\ ldata = <<>>
    /\ sysfs = NoSysfs
    /\ NoPair
    /\ NoCall

\* proxy_linkinfo on a batch read from the kernel
LinkInfoCall ==
    /\ pc = "idle"
    /\ \E d \in InfoBatches, fs \in SysfsStates :
         /\ ldata' = d
         /\ sysfs' = fs
         /\ result' = proxy_linkinfo(d, caps, fs)
    /\ pc' = "done"
    /\ op' = "linkinfo"
    /\ UNCHANGED othervars

\* proxy_linkinfo on the data the previous call gave, sysfs being as it was
LinkInfoAgain ==
    /\ pc = "done"
    /\ op = "linkinfo"
    /\ result.status = "return"
    /\ ldata' = Val(result.data)
    /\ result' = proxy_linkinfo(ldata', caps, sysfs)
    /\ pc' = "again"
    /\ UNCHANGED <<op, sysfs, othervars>>

ReturnInfo ==
    /\ pc \in {"done", "again"}
    /\ op = "linkinfo"
    /\ pc' = "idle"
    /\ op' = "none"
    /\ ldata' = <<>>
    /\ sysfs' = NoSysfs
    /\ result' = NoResult
    /\ UNCHANGED othervars

NextInfo ==
    \/ LinkInfoCall
    \/ LinkInfoAgain
    \/ ReturnInfo

SpecInfo == InitInfo /\ [][NextInfo]_vars

(***************************************************************************)
(* Properties of the enrichment                                            *)
(***************************************************************************)
\* proxy_linkinfo has returned
InfoDone ==
    op = "linkinfo" /\ pc \in {"done", "again"} /\ result.status = "return"

\* message i as it came in and as it went out
In(i) == Decode(ldata[i])
Out(i) == Decode(Val(result.data)[i])
\* the link messages of the batch, those that are enriched
Enriched == {i \in 1..Len(ldata) : In(i).type # NLMSG_ERROR}

Masters(m) == SelectSeq(m.attrs, LAMBDA a : a[1] = "IFLA_MASTER")
\* the info-data attributes of the link-info block of m
DataBlocks(m) ==
    IF IsNone(get_attr(m, "IFLA_LINKINFO")) THEN <<>>
    ELSE SelectSeq(Val(get_attr(m, "IFLA_LINKINFO")).attrs,
                   LAMBDA a : a[1] = "IFLA_INFO_DATA")
DeclaredKind(m) ==
    IF IsNone(get_attr(m, "IFLA_LINKINFO")) THEN None
    ELSE get_attr(Val(get_attr(m, "IFLA_LINKINFO")), "IFLA_INFO_KIND")

\* the master index sysfs gives for message i: the bridge-port file first
SysMaster(i) ==
    LET e == sysfs[Val(NameOf(In(i)))]
    IN  IF ~IsNone(e.brport) THEN e.brport ELSE e.master

\* C11: enrichment appends a master attribute exactly when provide_master
\* is absent, the message has no master attribute and sysfs gives a master
\* index (bridge-port file first); otherwise it adds none, so that no
\* enriched message carries two master attributes.
C11_MasterAppended ==
    InfoDone =>
        \A i \in Enriched :
            /\ Len(Masters(Out(i))) <= 1
            /\ IF /\ ~caps.provide_master
                  /\ Masters(In(i)) = <<>>
                  /\ ~IsNone(SysMaster(i))
               THEN Masters(Out(i)) = << <<"IFLA_MASTER", Val(SysMaster(i))>> >>
               ELSE Masters(Out(i)) = Masters(In(i))

\* a message with a master, a declared kind and, for bond and bridge, an
\* info-data block
FullyPopulated(m) ==
    /\ Masters(m) # <<>>
    /\ ~IsNone(DeclaredKind(m))
    /\ DeclaredKind(m) \in {Some("bond"), Some("bridge")} =>
          DataBlocks(m) # <<>>

\* C12: enrichment leaves a fully populated message as it is, whatever the
\* capabilities and sysfs hold, and enriching the result of an enrichment
\* changes nothing.
C12_Idempotent ==
    InfoDone =>
        /\ \A i \in Enriched : FullyPopulated(In(i)) => Out(i) = In(i)
        /\ pc = "again" => Val(result.data) = ldata

\* C13: whatever sysfs holds, proxy_linkinfo returns verdict forward with
\* one chunk per message of the batch, in the order of the batch: an error
\* message as it came, every other message as its own enrichment leaves it,
\* whether or not the enrichment of another message met an OSError.
C13_InfoNeverFails ==
    (op = "linkinfo" /\ pc \in {"done", "again"}) =>
        /\ result.status = "return"
        /\ result.verdict = "forward"
        /\ Len(Val(result.data)) = Len(ldata)
        /\ \A i \in 1..Len(ldata) :
              IF i \in Enriched
              THEN Val(result.data)[i] =
                     Encode(compat_fix_attrs(In(i), caps, sysfs).msg)
              ELSE Val(result.data)[i] = ldata[i]

\* the listing of the port's directory fails, and the message about the
\* device that follows is enriched
C13_Witness ==
    /\ op = "linkinfo"
    /\ pc = "done"
    /\ Len(ldata) = 2
    /\ ldata[1] = PortChunk
    /\ sysfs[PortName].ls.errno \in OSErrnos
    /\ Val(result.data)[1] = PortChunk
    /\ Val(result.data)[2] # ldata[2]

\* the kind enrichment works with for message i: the declared one, else
\* the one the listing of the interface's directory gives
ResolvedKind(i) ==
    IF ~IsNone(DeclaredKind(In(i))) THEN Val(DeclaredKind(In(i)))
    ELSE get_interface_type(sysfs, Val(NameOf(In(i)))).kind

\* the attributes of the kind's table whose files can be read and parsed
Readable(i) ==
    read_commands(AttrTable(ResolvedKind(i)),
                  sysfs[Val(NameOf(In(i)))].files, 1)

\* C17: for a message whose kind resolves to bond or bridge and that has
\* no info-data block, enrichment appends one block holding exactly the
\* attributes whose files were read and parsed, and none if no file was;
\* when the message has an info-data block, none is appended.
C17_InfoDataBuilt ==
    InfoDone =>
        \A i \in Enriched :
            ResolvedKind(i) \in {"bond", "bridge"} =>
                IF DataBlocks(In(i)) = <<>>
                THEN DataBlocks(Out(i)) =
                       (IF Readable(i) = <<>> THEN <<>>
                        ELSE << <<"IFLA_INFO_DATA",
                                  [attrs |-> Readable(i)]>> >>)
                ELSE DataBlocks(Out(i)) = DataBlocks(In(i))

(***************************************************************************)
(* Two sync-wrapped executors called at the same time from two threads.    *)
(* Pipes and sockets are taken from the process: os.pipe() and             *)
(* RawIPRSocket() give ones nobody holds.                                  *)
(***************************************************************************)
\* the number of batches the kernel sends while the two calls run
MaxPairNotify == 2

\* what the two callers ask for: (type, interface name); they differ
PairTargets(c) ==
    IF c = "a" THEN {<<RTM_NEWLINK, DevName>>}
    ELSE {<<RTM_DELLINK, DevName>>, <<RTM_NEWLINK, PortName>>}

HeldPipes == {calls[c].pipe : c \in Callers} \ {0}
HeldSocks == {calls[c].ipr : c \in Callers} \ {0}

\* os.pipe() handing out one pipe for all callers
new_pipe_shared(held) == 1

\* os.pipe(): a pipe that is not held
new_pipe(held) == CHOOSE i \in PipeIds \ held : \A j \in PipeIds \ held : i <= j

\* RawIPRSocket(): a socket that is not held
new_sock(held) == CHOOSE i \in SockIds \ held : \A j \in SockIds \ held : i <= j

\* the variables the two calls do not touch
pairrest == <<caps, machine, ldata, sysfs, pc, op, imsg, live, lookups,
              smsg, executor, outcome, oplog, wret, result, w_pc, w_event,
              w_ifname, w_why, bound, queue, pipe, match_sent>>

\* decorated() up to t.start()
PairCall ==
    \E c \in Callers :
        /\ calls[c].pc = "idle"
        /\ \E t \in PairTargets(c) :
             calls' = [calls EXCEPT ![c] =
                         [IdleCall EXCEPT !.pc = "call",
                                          !.tag = RTM_VALUES(t[1]),
                                          !.ifname = t[2],
                                          !.w_pc = "started",
                                          !.w_event = PyStr(RTM_VALUES(t[1])),
                                          !.pipe = new_pipe(HeldPipes)]]
        /\ UNCHANGED <<pipes, socks, nsent, pairrest>>

\* monitor: ipr = RawIPRSocket(); ipr.bind(); poll.register(...)
PairBind ==
    \E c \in Callers :
        /\ calls[c].w_pc = "started"
        /\ LET id == new_sock(HeldSocks)
           IN  /\ calls' = [calls EXCEPT ![c].w_pc = "polling", ![c].ipr = id]
               /\ socks' = [socks EXCEPT ![id] = [bound |-> TRUE, queue |-> <<>>]]
        /\ UNCHANGED <<pipes, nsent, pairrest>>

\* ret = f(msg): it returns or raises
PairExecute ==
    \E c \in Callers :
        /\ calls[c].pc = "call"
        /\ \E o \in {"ok", "raise"} :
             calls' = [calls EXCEPT ![c].pc = "finally", ![c].outcome = o]
        /\ UNCHANGED <<pipes, socks, nsent, pairrest>>

\* finally: os.write(cmd, b'q')
PairCancel ==
    \E c \in Callers :
        /\ calls[c].pc = "finally"
        /\ pipes' = [pipes EXCEPT ![calls[c].pipe] = @ + 1]
        /\ calls' = [calls EXCEPT ![c].pc = "join"]
        /\ UNCHANGED <<socks, nsent, pairrest>>

\* one round of the monitor's loop on its own socket and pipe
PairPoll ==
    \E c \in Callers :
        /\ calls[c].w_pc = "polling"
        /\ LET q == socks[calls[c].ipr].queue
               ready == IF Len(q) > 0 /\ pipes[calls[c].pipe] > 0
                        THEN {<<"ipr", "cmd">>, <<"cmd", "ipr">>}
                        ELSE IF Len(q) > 0 THEN {<<"ipr">>}
                        ELSE IF pipes[calls[c].pipe] > 0 THEN {<<"cmd">>}
                        ELSE {}
           IN  \E events \in ready :
                 LET r == ForEvents(events, calls[c].w_event, q,
                                    Some(calls[c].ifname))
                 IN  /\ calls' = [calls EXCEPT
                           ![c].w_event = r.event,
                           ![c].w_why = r.why,
                           ![c].w_pc = IF r.why = "" THEN "polling"
                                       ELSE "terminated",
                           ![c].last = IF Len(r.queue) < Len(q) THEN Head(q)
                                       ELSE @]
                     /\ socks' = [socks EXCEPT ![calls[c].ipr] =
                                     IF r.why = "" THEN [@ EXCEPT !.queue = r.queue]
                                     ELSE ClosedSock]
        /\ UNCHANGED <<pipes, nsent, pairrest>>

\* t.join(), os.close(rnd), os.close(cmd), return or re-raise
PairJoin ==
    \E c \in Callers :
        /\ calls[c].pc = "join"
        /\ calls[c].w_pc = "terminated"
        /\ calls' = [calls EXCEPT ![c].pc = "done",
                                  ![c].ret = IF calls[c].outcome = "ok"
                                             THEN "return" ELSE "raise",
                                  ![c].pipe = 0,
                                  ![c].ipr = 0]
        /\ pipes' = [pipes EXCEPT ![calls[c].pipe] = 0]
        /\ UNCHANGED <<socks, nsent, pairrest>>

\* the kernel broadcasts a batch to every bound socket
PairNotify ==
    /\ \E c \in Callers : calls[c].pc \in {"call", "finally", "join"}
    /\ nsent < MaxPairNotify
    /\ \E b \in Batches :
         socks' = [i \in SockIds |->
                     IF socks[i].bound
                     THEN [socks[i] EXCEPT !.queue = Append(@, b)]
                     ELSE socks[i]]
    /\ nsent' = nsent + 1
    /\ UNCHANGED <<calls, pipes, pairrest>>

InitPair ==
    /\ caps \in [create_bond : {FALSE}, create_bridge : {FALSE},
                  provide_master : {FALSE}]
    /\ machine = "x86_64"
    /\ ldata = <<>>
    /\ sysfs = NoSysfs
    /\ NoPair
    /\ NoCall

NextPair ==
    \/ PairCall
    \/ PairBind
    \/ PairExecute
    \/ PairCancel
    \/ PairPoll
    \/ PairJoin
    \/ PairNotify

SpecPair == InitPair /\ [][NextPair]_vars

\* batch b holds a message with the tag and the interface name caller c
\* awaits
AwaitedBy(c, b) ==
    \E k \in 1..Len(b) :
        b[k].event = calls[c].tag /\ b[k].ifname = calls[c].ifname

\* C18: two sync-wrapped calls that run at the same time hold different
\* pipes and different sockets; the monitor of a call ends by
\* cancellation only after that call's own decorated() has written its
\* pipe; a call is done only when its own monitor has terminated; and a
\* monitor never ends with a match on a batch that holds no message with
\* its own call's tag and interface name.
C18_NoInterference ==
    /\ \A c, d \in Callers :
          c # d =>
            /\ calls[c].pipe # 0 => calls[c].pipe # calls[d].pipe
            /\ calls[c].ipr # 0 => calls[c].ipr # calls[d].ipr
    /\ \A c \in Callers :
          /\ calls[c].w_why = "cancel" => calls[c].pc \in {"join", "done"}
          /\ calls[c].pc = "done" => calls[c].w_pc = "terminated"
          /\ calls[c].w_why = "match" => AwaitedBy(c, calls[c].last)

\* a is done and its pipe was written, while the monitor of b, whose
\* executor still runs, has read a batch about a's target and waits on
C18_Witness ==
    /\ calls["a"].pc = "done"
    /\ calls["a"].w_why = "cancel"
    /\ calls["b"].pc = "call"
    /\ calls["b"].w_pc = "polling"
    /\ calls["b"].last # <<>>
    /\ AwaitedBy("a", calls["b"].last)
    /\ ~AwaitedBy("b", calls["b"].last)

====
